---- MODULE Spec2Model ----
(***************************************************************************)
(* Model of the image-bed command line tools: the delete command           *)
(* (GitHubImageDeleter), the list command (GitHubImageLister) and the      *)
(* uploader's batch API (GitHubImageUploader).  Strings that the code      *)
(* parses are sequences of one-character strings; byte counts are          *)
(* little-endian sequences of base-1024 digits (<<>> is zero), so that     *)
(* sizes up to 2^53 fit TLC's 32-bit integers.                             *)
(***************************************************************************)
EXTENDS Integers, Sequences, FiniteSets, TLC

VARIABLES cmd, cfgOk, regexOk, args, localFs, pc, idx, filePath, inflight, trace,
          calls, results, upErrs, log, exitCode, escaped, pin, pout

vars == <<cmd, cfgOk, regexOk, args, localFs, pc, idx, filePath, inflight, trace,
          calls, results, upErrs, log, exitCode, escaped, pin, pout>>

progVars == <<cmd, cfgOk, regexOk, args, localFs, pc, idx, filePath, inflight, trace,
              calls, results, upErrs, log, exitCode, escaped>>

\* ------------------------------------------------------------------ bounds
\* longest argument list of a batch
MaxArgs == 2
\* number of fragments an input of parsePath is assembled from
MaxPieces == 4
\* number of base-1024 digits of a byte count
MaxDigits == 6

\* ----------------------------------------------------------------- strings
Min(S) == CHOOSE x \in S : \A y \in S : x <= y

\* String.prototype.startsWith
startsWith(s, t) == Len(s) >= Len(t) /\ SubSeq(s, 1, Len(t)) = t

\* String.prototype.indexOf: 0-based index of the first occurrence, or -1
indexOf(s, t) ==
    LET hits == {i \in 0..(Len(s) - Len(t)) : SubSeq(s, i + 1, i + Len(t)) = t}
    IN  IF hits = {} THEN -1 ELSE Min(hits)

\* String.prototype.substring(start): start is clamped to the length
substring(s, start) ==
    IF start >= Len(s) THEN <<>> ELSE SubSeq(s, start + 1, Len(s))

\* String.prototype.match of an unanchored pattern <literal>(.+): the leftmost
\* place where the literal is followed by at least one character; the greedy
\* group takes the rest of the input.
matchLiteralRest(s, lit) ==
    LET hits == {i \in 0..(Len(s) - Len(lit) - 1) :
                    SubSeq(s, i + 1, i + Len(lit)) = lit}
    IN  IF hits = {} THEN [matched |-> FALSE, at |-> -1, group |-> <<>>]
        ELSE [matched |-> TRUE, at |-> Min(hits),
              group |-> substring(s, Min(hits) + Len(lit))]

\* ----------------------------------------------------- configuration (env)
owner  == <<"a", "c", "m", "e">>
repo   == <<"p", "i", "c", "s">>
branch == <<"m", "a", "i", "n">>

\* ---------------------------------------------------------------- parsePath
\* faulty variant: the raw pattern without its branch segment
rawPatternNoBranch ==
    <<"r", "a", "w", ".", "g", "i", "t", "h", "u", "b", "u", "s", "e", "r", "c", "o", "n", "t", "e", "n", "t", ".", "c", "o", "m", "/">> \o owner \o <<"/">> \o repo \o <<"/">>

\* raw\.githubusercontent\.com/${owner}/${repo}/${branch}/(.+)
rawPattern ==
    <<"r", "a", "w", ".", "g", "i", "t", "h", "u", "b", "u", "s", "e", "r", "c", "o", "n", "t", "e", "n", "t", ".", "c", "o", "m", "/">> \o owner \o <<"/">> \o repo \o <<"/">> \o branch \o <<"/">>

rawMatch(input) == matchLiteralRest(input, rawPattern)

\* cdn\.jsdelivr\.net/gh/${owner}/${repo}(?:@${branch})?/(.+)
cdnPrefix == <<"c", "d", "n", ".", "j", "s", "d", "e", "l", "i", "v", "r", ".", "n", "e", "t", "/", "g", "h", "/">> \o owner \o <<"/">> \o repo

\* The optional group is tried first at every start position; the leftmost
\* start position that matches either way wins.
cdnMatch(input) ==
    LET withBranch == matchLiteralRest(input, cdnPrefix \o <<"@">> \o branch \o <<"/">>)
        without    == matchLiteralRest(input, cdnPrefix \o <<"/">>)
    IN  IF withBranch.matched /\ (~without.matched \/ withBranch.at <= without.at)
        THEN withBranch
        ELSE without

\* the substring fallback of lines 69-78
fallbackPath(input) ==
    LET repoIndex == indexOf(input, repo)
    IN  IF repoIndex # -1
        THEN LET afterRepo   == substring(input, repoIndex + Len(repo))
                 branchIndex == indexOf(afterRepo, branch)
             IN  IF branchIndex # -1
                 THEN [matched |-> TRUE,
                       group |-> substring(afterRepo, branchIndex + Len(branch) + 1)]
                 ELSE [matched |-> FALSE, group |-> <<>>]
        ELSE [matched |-> FALSE, group |-> <<>>]

isHttpInput(input) == startsWith(input, <<"h", "t", "t", "p">>)

parsePath(input) ==
    IF isHttpInput(input)
    THEN IF rawMatch(input).matched THEN rawMatch(input).group
         ELSE IF cdnMatch(input).matched THEN cdnMatch(input).group
         ELSE IF fallbackPath(input).matched THEN fallbackPath(input).group
         ELSE input
    ELSE input

\* --------------------------------------------------------------- formatSize
k == 1024
sizes == <<"B", "KB", "MB", "GB", "TB">>

\* Math.floor(Math.log(bytes) / Math.log(k)) for bytes > 0.  The quotient of
\* the two doubles is the exact logarithm rounded down, except within three
\* bytes below k^5, where Math.log(bytes) rounds to Math.log(k^5) and the
\* quotient is 5.0.
floorLog(bytes) ==
    IF /\ Len(bytes) = 5
       /\ \A j \in 2..5 : bytes[j] = k - 1
       /\ bytes[1] >= k - 3
    THEN 5
    ELSE Len(bytes) - 1

\* 100 * (low digits ds[1..j] read as a base-k fraction), as the pair of its
\* integer part and the leading digit of its fractional part
RECURSIVE times100(_, _)
times100(ds, j) ==
    IF j = 0 THEN [carry |-> 0, rem |-> 0]
    ELSE LET t == 100 * ds[j] + times100(ds, j - 1).carry
         IN  [carry |-> t \div k, rem |-> t % k]

\* (bytes / Math.pow(k, i)).toFixed(2), in hundredths: the division by a
\* power of two is exact and toFixed rounds the exact value, ties upwards
toFixed2(bytes, i) ==
    LET top  == IF i + 1 <= Len(bytes) THEN bytes[i + 1] ELSE 0
        frac == times100(bytes, i)
    IN  100 * top + frac.carry + (IF 2 * frac.rem >= k THEN 1 ELSE 0)

\* the number parseFloat reads back is value100 / 100; sizes[i] is undefined
\* when i is past the end of the array
formatSize(bytes) ==
    IF bytes = <<>> THEN [value100 |-> 0, unit |-> "B"]
    ELSE LET i == floorLog(bytes)
         IN  [value100 |-> toFixed2(bytes, i),
              unit |-> IF i + 1 <= Len(sizes) THEN sizes[i + 1] ELSE "undefined"]

\* ------------------------------------------------- the remote API's answers
Shas == {"sha1", "sha2"}
Urls == {"url1", "url2"}

\* what a rejected axios call throws: an AxiosError with a response (404 or
\* another status), an AxiosError without one, or some other error
ApiErrors ==
    { [axios |-> TRUE,  status |-> 404, msg |-> "Not Found"],
      [axios |-> TRUE,  status |-> 500, msg |-> "Server Error"],
      [axios |-> TRUE,  status |-> 0,   msg |-> "Network Error"],
      [axios |-> FALSE, status |-> 0,   msg |-> "TypeError"] }

noError == [axios |-> FALSE, status |-> 0, msg |-> ""]

GetOutcomes ==
    {[ok |-> TRUE, sha |-> s, err |-> noError] : s \in Shas}
        \cup {[ok |-> FALSE, sha |-> "", err |-> e] : e \in ApiErrors}
DeleteOutcomes ==
    {[ok |-> TRUE, err |-> noError]} \cup {[ok |-> FALSE, err |-> e] : e \in ApiErrors}
PutOutcomes ==
    {[ok |-> TRUE, url |-> u, err |-> noError] : u \in Urls}
        \cup {[ok |-> FALSE, url |-> "", err |-> e] : e \in ApiErrors}

\* response.data of the list request: one file, or an array of entries
ListData ==
    { [isArray |-> FALSE, entries |-> <<[type |-> "file", size |-> <<1023, 1023>>]>>],
      [isArray |-> TRUE,  entries |-> <<>>],
      [isArray |-> TRUE,  entries |-> <<[type |-> "dir",  size |-> <<>>],
                                        [type |-> "file", size |-> <<0, 2>>]>>] }
ListOutcomes ==
    {[ok |-> TRUE, data |-> d, err |-> noError] : d \in ListData}
        \cup {[ok |-> FALSE, data |-> [isArray |-> TRUE, entries |-> <<>>], err |-> e] :
                e \in ApiErrors}

\* ------------------------------------------------------------------ inputs
SeqsUpTo(S, n) == UNION {[1..m -> S] : m \in 0..n}

DeleteInputs ==
    { <<"i", "m", "a", "g", "e", "s", "/", "o", "l", "d", ".", "p", "n", "g">>,
      <<"h", "t", "t", "p", "s", ":", "/", "/", "r", "a", "w", ".", "g", "i", "t", "h", "u", "b", "u", "s", "e", "r", "c", "o", "n", "t", "e", "n", "t", ".", "c", "o", "m", "/", "a", "c", "m", "e", "/", "p", "i", "c", "s", "/", "m", "a", "i", "n", "/", "i", "m", "a", "g", "e", "s", "/", "o", "l", "d", ".", "p", "n", "g">>,
      <<"h", "t", "t", "p", "s", ":", "/", "/", "c", "d", "n", ".", "j", "s", "d", "e", "l", "i", "v", "r", ".", "n", "e", "t", "/", "g", "h", "/", "a", "c", "m", "e", "/", "p", "i", "c", "s", "@", "m", "a", "i", "n", "/", "a", ".", "p", "n", "g">> }
ListInputs == { <<"i", "m", "a", "g", "e", "s">>, <<"/", "i", "m", "a", "g", "e", "s">> }
UploadFiles == {"a.png", "b.png", "gone.png"}

\* ------------------------------------------------------- shared machinery
\* process.exit(code), or the end of main (code 0)
exit(code) == pc' = "exited" /\ exitCode' = code

request(method, item, path, sha) ==
    [method |-> method, item |-> item, path |-> path, sha |-> sha]

sent(r) == [kind |-> "request", req |-> r, ok |-> TRUE, data |-> "", err |-> noError]
answered(r, out, data) ==
    [kind |-> "response", req |-> r, ok |-> out.ok, data |-> data, err |-> out.err]

\* faulty variant: the constructor without its validateConfig check
validateConfigSkipped == TRUE

\* validateConfig: owner, repo and token are all set
validateConfig == cfgOk

\* faulty variant: the loop body calls without `await`
notAwaited == pc \in {"loop", "awaitGet", "awaitDelete", "awaitPut"}

\* `await` in the batch loops: the loop body runs again only when the call it
\* awaited has settled
awaited == pc = "loop"

pureUnchanged == UNCHANGED <<pin, pout>>

\* ------------------------------------------------------------------ delete
\* getFileSha's catch: a 404 becomes a plain "file not found" Error, anything
\* else is thrown on as it is
getFileShaCatch(error) ==
    IF error.axios /\ error.status = 404
    THEN [axios |-> FALSE, status |-> 0, msg |-> "fileNotFound"]
    ELSE error

\* faulty variant: the catch with its commented-out `throw` lines restored
deleteImageCatchRethrow(error) ==
    [line  |-> IF error.axios THEN <<"deleteFailed", error.msg>>
               ELSE <<"error", error.msg>>,
     throw |-> TRUE]

\* deleteImage's catch: logs, and throws nothing
deleteImageCatch(error) ==
    [line  |-> IF error.axios THEN <<"deleteFailed", error.msg>>
               ELSE <<"error", error.msg>>,
     throw |-> FALSE]

\* faulty variant: the DELETE sent without the version identifier read
deleteRequestNoSha(item, path, sha) == request("DELETE", item, path, "")

\* the axios.delete call of deleteImage
deleteRequest(item, path, sha) == request("DELETE", item, path, sha)

\* what `new RegExp` throws in parsePath when the configured owner, repo or
\* branch does not form a valid pattern (a repo named c++, say)
regExpError == [axios |-> FALSE, status |-> 0, msg |-> "SyntaxError"]

\* how deleteImage ends after an error reached its catch: it returns to the
\* loop, or (were the catch to throw) the error reaches main's catch
deleteImageFails(error) ==
    LET c == deleteImageCatch(error)
    IN  IF c.throw
        THEN /\ log' = log \o <<c.line, <<"mainError", "thrown">>>>
             /\ escaped' = TRUE
             /\ exit(1)
        ELSE /\ log' = log \o <<c.line, <<"---">>>>
             /\ pc' = "loop"
             /\ UNCHANGED <<escaped, exitCode>>

\* main of the delete command up to the call of deleteImages
deleteMain ==
    /\ cmd = "delete" /\ pc = "main"
    /\ IF Len(args) = 0
       THEN /\ log' = Append(log, <<"usage">>)
            /\ exit(1)
            /\ UNCHANGED idx
       ELSE IF ~validateConfig
       THEN /\ log' = Append(log, <<"mainError", "config">>)
            /\ exit(1)
            /\ UNCHANGED idx
       ELSE /\ pc' = "loop" /\ idx' = 0
            /\ UNCHANGED <<log, exitCode>>
    /\ UNCHANGED <<cmd, cfgOk, regexOk, args, localFs, filePath, inflight, trace, calls,
                   results, upErrs, escaped>>
    /\ pureUnchanged

\* one turn of deleteImages' loop: the next deleteImage call up to its first
\* await (parsePath, which may throw, then the GET of getFileSha), or the
\* return to main
deleteImages ==
    /\ cmd = "delete" /\ awaited
    /\ IF idx = Len(args)
       THEN /\ exit(0)
            /\ UNCHANGED <<idx, filePath, inflight, trace, calls, log, escaped>>
       ELSE LET input == args[idx + 1]
                path  == parsePath(input)
                get   == request("GET", idx + 1, path, "")
            IN  /\ idx' = idx + 1
                /\ calls' = Append(calls, input)
                /\ IF isHttpInput(input) /\ ~regexOk
                   THEN /\ deleteImageFails(regExpError)
                        /\ UNCHANGED <<filePath, inflight, trace>>
                   ELSE /\ filePath' = path
                        /\ log' = Append(log, <<"processing", idx + 1>>)
                        /\ inflight' = inflight \cup {get}
                        /\ trace' = Append(trace, sent(get))
                        /\ pc' = "awaitGet"
                        /\ UNCHANGED <<exitCode, escaped>>
    /\ UNCHANGED <<cmd, cfgOk, regexOk, args, localFs, results, upErrs>>
    /\ pureUnchanged

\* the GET of getFileSha settles; on success deleteImage goes on to the DELETE
deleteImageGot ==
    /\ cmd = "delete" /\ pc = "awaitGet"
    /\ \E r \in inflight, out \in GetOutcomes :
        /\ r.method = "GET"
        /\ IF out.ok
           THEN LET del == deleteRequest(r.item, filePath, out.sha)
                IN  /\ inflight' = (inflight \ {r}) \cup {del}
                    /\ trace' = trace \o <<answered(r, out, out.sha), sent(del)>>
                    /\ log' = Append(log, <<"sha", out.sha>>)
                    /\ pc' = "awaitDelete"
                    /\ UNCHANGED <<escaped, exitCode>>
           ELSE /\ inflight' = inflight \ {r}
                /\ trace' = Append(trace, answered(r, out, ""))
                /\ deleteImageFails(getFileShaCatch(out.err))
    /\ UNCHANGED <<cmd, cfgOk, regexOk, args, localFs, idx, filePath, calls, results, upErrs>>
    /\ pureUnchanged

\* the DELETE settles
deleteImageDeleted ==
    /\ cmd = "delete" /\ pc = "awaitDelete"
    /\ \E r \in inflight, out \in DeleteOutcomes :
        /\ r.method = "DELETE"
        /\ inflight' = inflight \ {r}
        /\ trace' = Append(trace, answered(r, out, ""))
        /\ IF out.ok
           THEN /\ log' = log \o << <<"deleted">>, <<"---">> >>
                /\ pc' = "loop"
                /\ UNCHANGED <<escaped, exitCode>>
           ELSE deleteImageFails(out.err)
    /\ UNCHANGED <<cmd, cfgOk, regexOk, args, localFs, idx, filePath, calls, results, upErrs>>
    /\ pureUnchanged

\* -------------------------------------------------------------------- list
\* faulty variant: the catch without its process.exit(1)
listImagesCatchNoExit(error) ==
    [line |-> IF error.axios
              THEN IF error.status = 404 THEN <<"pathNotFound">>
                   ELSE <<"apiError", error.msg>>
              ELSE <<"error", error.msg>>,
     exit |-> 0]

\* listImages' catch: the line it prints before process.exit(1)
\* and the status of that exit
listImagesCatch(error) ==
    [line |-> IF error.axios
              THEN IF error.status = 404 THEN <<"pathNotFound">>
                   ELSE <<"apiError", error.msg>>
              ELSE <<"error", error.msg>>,
     exit |-> 1]

\* the lines printed for a successful answer
RECURSIVE fileLines(_)
fileLines(entries) ==
    IF entries = <<>> THEN <<>>
    ELSE IF Head(entries).type = "file"
         THEN << <<"file", formatSize(Head(entries).size)>> >> \o fileLines(Tail(entries))
         ELSE fileLines(Tail(entries))

RECURSIVE dirLines(_)
dirLines(entries) ==
    IF entries = <<>> THEN <<>>
    ELSE IF Head(entries).type = "dir"
         THEN << <<"dir">> >> \o dirLines(Tail(entries))
         ELSE dirLines(Tail(entries))

listing(data) ==
    IF ~data.isArray
    THEN << <<"single", formatSize(data.entries[1].size)>> >>
    ELSE << <<"found", Len(fileLines(data.entries)), Len(dirLines(data.entries))>> >>
            \o dirLines(data.entries) \o fileLines(data.entries)
            \o (IF data.entries = <<>> THEN << <<"emptyDir">> >> ELSE <<>>)

\* main of the list command and listImages up to its await
listMain ==
    /\ cmd = "list" /\ pc = "main"
    /\ IF ~validateConfig
       THEN /\ log' = Append(log, <<"mainError", "config">>)
            /\ exit(1)
            /\ UNCHANGED <<filePath, inflight, trace>>
       ELSE LET dirPath   == IF Len(args) = 0 THEN <<>> ELSE args[1]
                cleanPath == IF startsWith(dirPath, <<"/">>) THEN Tail(dirPath) ELSE dirPath
                get       == request("GET", 1, cleanPath, "")
            IN  /\ filePath' = cleanPath
                /\ log' = Append(log, <<"querying">>)
                /\ inflight' = inflight \cup {get}
                /\ trace' = Append(trace, sent(get))
                /\ pc' = "awaitList"
                /\ UNCHANGED exitCode
    /\ UNCHANGED <<cmd, cfgOk, regexOk, args, localFs, idx, calls, results, upErrs, escaped>>
    /\ pureUnchanged

\* the GET settles: the listing is printed and main ends, or the catch exits
listImagesGot ==
    /\ cmd = "list" /\ pc = "awaitList"
    /\ \E r \in inflight, out \in ListOutcomes :
        /\ inflight' = inflight \ {r}
        /\ trace' = Append(trace, answered(r, out, ""))
        /\ IF out.ok
           THEN /\ log' = log \o listing(out.data)
                /\ exit(0)
           ELSE /\ log' = Append(log, listImagesCatch(out.err).line)
                /\ exit(listImagesCatch(out.err).exit)
    /\ UNCHANGED <<cmd, cfgOk, regexOk, args, localFs, idx, filePath, calls, results, upErrs,
                   escaped>>
    /\ pureUnchanged

\* ------------------------------------------------------------------ upload
\* faulty variant: uploadImage without its existence check
existsSyncAlways(file) == TRUE

\* fs.existsSync(localFilePath)
existsSync(file) == file \in localFs

fileNotFound == [axios |-> FALSE, status |-> 0, msg |-> "fileNotExists"]

\* uploadImage's catch: an axios error is wrapped into a "GitHub API" Error,
\* anything else is thrown on as it is
uploadImageCatch(error) ==
    IF error.axios
    THEN [axios |-> FALSE, status |-> error.status, msg |-> "GitHubApiError"]
    ELSE error

\* faulty variant: a catch that pushes nothing
uploadImagesCatchSkip(error) == <<>>

\* uploadImages' catch: the entry pushed for a failed upload
uploadImagesCatch(error) == <<"">>

\* one turn of uploadImages' loop: the next uploadImage call up to its await
\* (the existence check, then the PUT), or the return of the results
uploadImages ==
    /\ cmd = "upload" /\ awaited
    /\ IF idx = Len(args)
       THEN /\ pc' = "returned"
            /\ UNCHANGED <<idx, calls, inflight, trace, results, upErrs, log>>
       ELSE LET file == args[idx + 1]
                put  == request("PUT", idx + 1, file, "")
            IN  /\ idx' = idx + 1
                /\ calls' = Append(calls, file)
                /\ IF ~existsSync(file)
                   THEN LET error == uploadImageCatch(fileNotFound)
                        IN  /\ results' = results \o uploadImagesCatch(error)
                            /\ upErrs' = Append(upErrs, error)
                            /\ log' = Append(log, <<"uploadFailed", error.msg>>)
                            /\ UNCHANGED <<pc, inflight, trace>>
                   ELSE /\ inflight' = inflight \cup {put}
                        /\ trace' = Append(trace, sent(put))
                        /\ log' = Append(log, <<"uploading", idx + 1>>)
                        /\ pc' = "awaitPut"
                        /\ UNCHANGED <<results, upErrs>>
    /\ UNCHANGED <<cmd, cfgOk, regexOk, args, localFs, filePath, exitCode, escaped>>
    /\ pureUnchanged

\* the PUT settles: uploadImage returns the download URL or throws
uploadImagePut ==
    /\ cmd = "upload" /\ pc = "awaitPut"
    /\ \E r \in inflight, out \in PutOutcomes :
        /\ inflight' = inflight \ {r}
        /\ trace' = Append(trace, answered(r, out, out.url))
        /\ IF out.ok
           THEN /\ results' = Append(results, out.url)
                /\ upErrs' = Append(upErrs, noError)
                /\ log' = Append(log, <<"uploaded", out.url>>)
           ELSE LET error == uploadImageCatch(out.err)
                IN  /\ results' = results \o uploadImagesCatch(error)
                    /\ upErrs' = Append(upErrs, error)
                    /\ log' = Append(log, <<"uploadFailed", error.msg>>)
        /\ pc' = "loop"
    /\ UNCHANGED <<cmd, cfgOk, regexOk, args, localFs, idx, filePath, calls, exitCode, escaped>>
    /\ pureUnchanged

\* ------------------------------------------------------- the three programs
ArgLists(c) ==
    IF c = "delete" THEN SeqsUpTo(DeleteInputs, MaxArgs)
    ELSE IF c = "list" THEN SeqsUpTo(ListInputs, 1)
    ELSE SeqsUpTo(UploadFiles, MaxArgs)

Init ==
    /\ cmd \in {"delete", "list", "upload"}
    \* uploadImages is a method: its object passed validateConfig when built
    /\ cfgOk \in (IF cmd = "upload" THEN {TRUE} ELSE BOOLEAN)
    \* whether owner, repo and branch form valid patterns in parsePath
    /\ regexOk \in (IF cmd = "delete" THEN BOOLEAN ELSE {TRUE})
    /\ args \in ArgLists(cmd)
    /\ localFs \in (IF cmd = "upload" THEN SUBSET UploadFiles ELSE {{}})
    /\ pc = (IF cmd = "upload" THEN "loop" ELSE "main")
    /\ idx = 0
    /\ filePath = <<>>
    /\ inflight = {}
    /\ trace = <<>>
    /\ calls = <<>>
    /\ results = <<>>
    /\ upErrs = <<>>
    /\ log = <<>>
    /\ exitCode = -1
    /\ escaped = FALSE
    /\ pin = <<>>
    /\ pout = <<>>

Next ==
    \/ deleteMain
    \/ deleteImages
    \/ deleteImageGot
    \/ deleteImageDeleted
    \/ listMain
    \/ listImagesGot
    \/ uploadImages
    \/ uploadImagePut

Spec == Init /\ [][Next]_vars

\* ------------------------------------------------- parsePath on its own
Fragments ==
    { <<"h", "t", "t", "p">>,
      <<"s", ":", "/", "/", "r", "a", "w", ".", "g", "i", "t", "h", "u", "b", "u", "s", "e", "r", "c", "o", "n", "t", "e", "n", "t", ".", "c", "o", "m", "/", "a", "c", "m", "e">>,
      <<"s", ":", "/", "/", "c", "d", "n", ".", "j", "s", "d", "e", "l", "i", "v", "r", ".", "n", "e", "t", "/", "g", "h", "/", "a", "c", "m", "e">>,
      <<"/", "p", "i", "c", "s", "/", "m", "a", "i", "n", "/">>,
      <<"/", "p", "i", "c", "s", "@", "m", "a", "i", "n", "/">>,
      <<"/", "p", "i", "c", "s", "/">>,
      <<"i", "m", "a", "g", "e", "s", "/", "o", "l", "d", ".", "p", "n", "g">> }

RECURSIVE concat(_)
concat(pieces) == IF pieces = <<>> THEN <<>> ELSE Head(pieces) \o concat(Tail(pieces))

ParseInputs == {concat(p) : p \in SeqsUpTo(Fragments, MaxPieces)}

idleProgram ==
    /\ cmd = "none" /\ cfgOk = TRUE /\ regexOk = TRUE /\ args = <<>> /\ localFs = {} /\ pc = "idle"
    /\ idx = 0 /\ filePath = <<>> /\ inflight = {} /\ trace = <<>> /\ calls = <<>>
    /\ results = <<>> /\ upErrs = <<>> /\ log = <<>> /\ exitCode = -1
    /\ escaped = FALSE

InitParse == idleProgram /\ pin \in ParseInputs /\ pout = <<>>

\* parsePath applied to the input
parseInput ==
    /\ pout = <<>>
    /\ pout' = <<parsePath(pin)>>
    /\ UNCHANGED <<pin, progVars>>

\* parsePath applied to its own result
parseAgain ==
    /\ Len(pout) = 1
    /\ pout' = Append(pout, parsePath(pout[1]))
    /\ UNCHANGED <<pin, progVars>>

NextParse == parseInput \/ parseAgain

SpecParse == InitParse /\ [][NextParse]_vars

\* ------------------------------------------------ formatSize on its own
Digits == {0, 1, k \div 2 - 1, k \div 2, k - 3, k - 1}

\* byte counts below 2^53: a sixth digit is at most 1
ByteCounts ==
    {b \in SeqsUpTo(Digits, MaxDigits) :
        /\ b # <<>> => b[Len(b)] # 0
        /\ \A j \in 1..Len(b) : j >= 6 => b[j] \in {0, 1}}

InitFormat == idleProgram /\ pin \in ByteCounts /\ pout = <<>>

formatInput ==
    /\ pout = <<>>
    /\ pout' = <<formatSize(pin)>>
    /\ UNCHANGED <<pin, progVars>>

NextFormat == formatInput

SpecFormat == InitFormat /\ [][NextFormat]_vars

\* ================================================================== claims
requestsAt(method) ==
    {n \in 1..Len(trace) : trace[n].kind = "request" /\ trace[n].req.method = method}
responses == {n \in 1..Len(trace) : trace[n].kind = "response"}
failedResponses == {n \in responses : ~trace[n].ok}

\* C1: every DELETE of deleteImage directly follows a successful GET of the
\* same item and the same resolved path and carries the sha that GET returned;
\* an item whose GET failed gets no DELETE.
C1_DeleteAfterGet ==
    /\ \A n \in requestsAt("DELETE") :
        /\ n > 1
        /\ trace[n - 1].kind = "response"
        /\ trace[n - 1].ok
        /\ trace[n - 1].req.method = "GET"
        /\ trace[n - 1].req.item = trace[n].req.item
        /\ trace[n - 1].req.path = trace[n].req.path
        /\ trace[n - 1].data \in Shas
        /\ trace[n].req.sha = trace[n - 1].data
    /\ \A m \in failedResponses : \A n \in requestsAt("DELETE") :
        trace[m].req.method = "GET" => trace[n].req.item # trace[m].req.item

\* a batch in which one item's GET failed and another item's DELETE was sent
C1_Witness ==
    /\ cmd = "delete"
    /\ requestsAt("DELETE") # {}
    /\ \E m \in failedResponses : trace[m].req.method = "GET"

\* C2: deleteImage never lets an error out: nothing reaches main's catch,
\* deleteImages has called deleteImage for a prefix of the inputs in order,
\* and when the command ends after the loop every input has been called.
C2_NeverPropagates ==
    cmd = "delete" =>
        /\ ~escaped
        /\ Len(calls) = idx
        /\ Len(calls) <= Len(args)
        /\ calls = SubSeq(args, 1, Len(calls))
        /\ (pc = "exited" /\ cfgOk /\ Len(args) > 0) => calls = args

\* the batch ran to its end although parsePath threw for the first of two
\* items and a request of the second failed
C2_Witness ==
    /\ cmd = "delete" /\ pc = "exited" /\ Len(args) = 2 /\ calls = args
    /\ ~regexOk /\ isHttpInput(args[1])
    /\ \E m \in failedResponses : trace[m].req.item = 2

\* the download URL the PUT of item i returned, "" when there was none
urlOf(i) ==
    LET got == {n \in responses : trace[n].ok /\ trace[n].req.item = i}
    IN  IF got = {} THEN "" ELSE trace[CHOOSE n \in got : TRUE].data

\* C3: uploadImages' result has one entry per input called and settled, entry
\* i being the URL returned for input i or "" when that upload failed, and
\* the returned list is as long as the input.
C3_ResultsAligned ==
    cmd = "upload" =>
        /\ Len(results) = (IF pc = "awaitPut" THEN idx - 1 ELSE idx)
        /\ \A i \in 1..Len(results) :
            /\ results[i] = urlOf(i)
            /\ (results[i] = "") <=> (upErrs[i] # noError)
        /\ pc = "returned" => (Len(results) = Len(args) /\ calls = args)

\* a returned batch whose first upload failed and whose second succeeded
C3_Witness ==
    /\ cmd = "upload" /\ pc = "returned" /\ Len(args) = 2
    /\ results[1] = "" /\ results[2] \in Urls

\* C4: in a batch at most one request is outstanding, it belongs to the item
\* the loop is at, requests are sent in input order, and each is sent only
\* after all earlier ones were answered.
C4_OneOutstanding ==
    cmd \in {"delete", "upload"} =>
        /\ Cardinality(inflight) <= 1
        /\ \A r \in inflight : r.item = idx
        /\ inflight # {} <=> pc \in {"awaitGet", "awaitDelete", "awaitPut"}
        /\ \A n \in 1..Len(trace) : \A m \in 1..(n - 1) :
            trace[m].req.item <= trace[n].req.item
        /\ \A n \in 1..Len(trace) : trace[n].kind = "request" =>
            Cardinality({m \in 1..(n - 1) : trace[m].kind = "request"})
                = Cardinality({m \in 1..(n - 1) : trace[m].kind = "response"})

\* the second item's request is out after the first item's request failed
C4_Witness ==
    /\ cmd = "delete" /\ inflight # {}
    /\ \E r \in inflight : r.item = 2
    /\ \E m \in failedResponses : trace[m].req.item = 1

\* C5: an upload of a path that does not exist fails at once with the local
\* file-not-found error, which is not the wrapped API error, and no PUT is
\* sent for it; the wrapped API error only comes from a request.
C5_MissingFilePreflight ==
    cmd = "upload" =>
        \A i \in 1..idx :
            /\ ~(args[i] \in localFs) =>
                /\ i <= Len(upErrs)
                /\ upErrs[i] = fileNotFound
                /\ upErrs[i].msg # "GitHubApiError"
                /\ results[i] = ""
                /\ \A n \in requestsAt("PUT") : trace[n].req.item # i
            /\ (i <= Len(upErrs) /\ upErrs[i].msg = "GitHubApiError") =>
                \E n \in requestsAt("PUT") : trace[n].req.item = i

\* a batch with one missing file and one upload the API refused
C5_Witness ==
    /\ cmd = "upload"
    /\ \E i \in 1..Len(upErrs) : ~(args[i] \in localFs)
    /\ \E i \in 1..Len(upErrs) : upErrs[i].msg = "GitHubApiError"

\* C6: the list command exits with 1 after any failure and with 0 after a
\* successful listing, and the line printed for a 404 differs from the lines
\* printed for other failures.
C6_ListExit ==
    (cmd = "list" /\ pc = "exited") =>
        LET failed == ~cfgOk \/ failedResponses # {}
        IN  /\ failed => exitCode = 1
            /\ ~failed => exitCode = 0
            /\ \A n \in failedResponses :
                LET e == trace[n].err
                    last == log[Len(log)]
                IN  /\ (e.axios /\ e.status = 404) <=> last[1] = "pathNotFound"
                    /\ (e.axios /\ e.status # 404) <=> last[1] = "apiError"
                    /\ ~e.axios <=> last[1] = "error"

\* a listing that ended on a 404
C6_Witness ==
    /\ cmd = "list" /\ pc = "exited"
    /\ \E n \in failedResponses : trace[n].err.status = 404

\* C7 as stated: the delete command exits with 1 exactly when it got no
\* arguments, and with 0 otherwise.
C7_ExitOnlyByArgs ==
    (cmd = "delete" /\ pc = "exited") => exitCode = (IF Len(args) = 0 THEN 1 ELSE 0)

\* C7 amended: the delete command exits with 1 when it got no arguments or
\* when a required setting is missing, and with 0 otherwise, whatever the
\* outcome of the items.
C7_ExitByArgsAndConfig ==
    (cmd = "delete" /\ pc = "exited") =>
        exitCode = (IF Len(args) = 0 \/ ~cfgOk THEN 1 ELSE 0)

\* the command ended with 0 although an item failed
C7_Witness ==
    /\ cmd = "delete" /\ pc = "exited" /\ exitCode = 0
    /\ failedResponses # {}

\* a bare relative path: no http:// or https:// scheme in front
isBarePath(x) == ~startsWith(x, <<"h", "t", "t", "p", ":", "/", "/">>) /\ ~startsWith(x, <<"h", "t", "t", "p", "s", ":", "/", "/">>)

\* C8: parsePath applied twice to a bare relative path gives what it gives
\* applied once, also for a bare path that begins with the letters http.
C8_Idempotent ==
    (Len(pout) = 2 /\ isBarePath(pin)) => pout[2] = pout[1]

\* the end positions of the occurrences of lit in x that leave a character
endsOf(x, lit) ==
    {n \in Len(lit)..(Len(x) - 1) : SubSeq(x, n - Len(lit) + 1, n) = lit}
rest(x, n) == SubSeq(x, n + 1, Len(x))
least(S) == CHOOSE n \in S : \A m \in S : n <= m

rawEnds(x) == endsOf(x, <<"r", "a", "w", ".", "g", "i", "t", "h", "u", "b", "u", "s", "e", "r", "c", "o", "n", "t", "e", "n", "t", ".", "c", "o", "m", "/", "a", "c", "m", "e", "/", "p", "i", "c", "s", "/", "m", "a", "i", "n", "/">>)
cdnEnds(x) ==
    endsOf(x, <<"c", "d", "n", ".", "j", "s", "d", "e", "l", "i", "v", "r", ".", "n", "e", "t", "/", "g", "h", "/", "a", "c", "m", "e", "/", "p", "i", "c", "s", "@", "m", "a", "i", "n", "/">>)
        \cup endsOf(x, <<"c", "d", "n", ".", "j", "s", "d", "e", "l", "i", "v", "r", ".", "n", "e", "t", "/", "g", "h", "/", "a", "c", "m", "e", "/", "p", "i", "c", "s", "/">>)
\* the ends of "main" after the first "pics"
repoEnds(x) == {n \in 4..Len(x) : SubSeq(x, n - 3, n) = <<"p", "i", "c", "s">>}
branchEnds(x) ==
    IF repoEnds(x) = {} THEN {}
    ELSE {n \in (least(repoEnds(x)) + 4)..Len(x) : SubSeq(x, n - 3, n) = <<"m", "a", "i", "n">>}

resolved(x) ==
    IF ~startsWith(x, <<"h", "t", "t", "p">>) THEN x
    ELSE IF rawEnds(x) # {} THEN rest(x, least(rawEnds(x)))
    ELSE IF cdnEnds(x) # {} THEN rest(x, least(cdnEnds(x)))
    ELSE IF branchEnds(x) # {} THEN rest(x, least(branchEnds(x)) + 1)
    ELSE x

C10_UnitRange ==
    Len(pout) = 1 =>
        /\ (pout[1] = [value100 |-> 0, unit |-> "B"]) <=> (pin = <<>>)
        /\ pin # <<>> =>
            /\ pout[1].unit \in {"B", "KB", "MB", "GB", "TB"}
            /\ pout[1].value100 >= 100
            /\ pout[1].value100 < 100 * 1024

====
